---- MODULE Spec2Model ----
(***************************************************************************)
(* Model of src/index.mjs: the in-memory vector store, the cosine ranker,  *)
(* the index build and the interactive session loop of the RAG search app. *)
(*                                                                         *)
(* Two specifications are given.                                           *)
(*   SpecStore  drives the public surface of CustomVectorStore and of      *)
(*              cosineSimilarity with arbitrary arguments (a caller of the *)
(*              class is free to pass any vectors, documents and k).       *)
(*   SpecRun    is the program itself: runRAG from process start to the    *)
(*              end of the chat.                                           *)
(***************************************************************************)
EXTENDS Integers, Sequences, FiniteSets, TLC

VARIABLES
    engine,        \* which Array.prototype.sort algorithm the JS engine ships
    vectors,       \* CustomVectorStore.vectors
    documents,     \* CustomVectorStore.documents
    extractor,     \* CustomVectorStore.extractor
    call,          \* SpecStore: the last call made on the class and its outcome
    pc,            \* SpecRun: position of runRAG / createVectorStore / startChat
    file,          \* SpecRun: what ./data.json held when loadData read it
    rawData,       \* SpecRun: value returned by loadData
    docs,          \* SpecRun: formatDocuments(rawData)
    promises,      \* SpecRun: state of the per-document getEmbeddings promises
    settled,       \* SpecRun: indexes of those promises, in the order they settled
    embeddings,    \* SpecRun: value Promise.all resolved with
    stdin,         \* SpecRun: lines still to be typed by the user
    query,         \* SpecRun: the line returned by the last rl.question
    relevantDocs,  \* SpecRun: result of searchDocuments in this iteration
    console        \* SpecRun: what the program printed, oldest first

vars == <<engine, vectors, documents, extractor, call, pc, file, rawData, docs,
          promises, settled, embeddings, stdin, query, relevantDocs, console>>

storeVars == <<vectors, documents, extractor>>
runVars == <<pc, file, rawData, docs, promises, settled, embeddings, stdin, query,
             relevantDocs, console>>

(***************************************************************************)
(* Bounds of the model.                                                    *)
(***************************************************************************)
MaxDocs == 3       \* longest vector / document sequence handed to the store
MaxLines == 2      \* longest input typed into the chat

(***************************************************************************)
(* Program constants.                                                      *)
(***************************************************************************)
DefaultK == 3      \* similaritySearch(query, k = 3)
SearchK == 3       \* searchDocuments passes 3

Undefined == [undefined |-> TRUE]                         \* a missing array element
UndefinedNum == [kind |-> "undefined", num |-> 0, den |-> 1]

(***************************************************************************)
(* JavaScript numbers.  The vectors of the model have integer components   *)
(* and integer magnitudes, so every number the ranker computes is an exact *)
(* integer, a quotient of two integers, an infinity or NaN.  IEEE division *)
(* is correctly rounded and monotone, so comparing the exact quotients     *)
(* gives the order the doubles have.                                       *)
(***************************************************************************)
NaN == [kind |-> "nan", num |-> 0, den |-> 1]
Fin(n, d) == [kind |-> "fin", num |-> n, den |-> d]
Inf(s) == [kind |-> "inf", num |-> s, den |-> 1]

Sign(n) == IF n > 0 THEN 1 ELSE IF n < 0 THEN -1 ELSE 0

\* b[i]: undefined past the end of the array
Index(b, i) == IF i \in DOMAIN b THEN Fin(b[i], 1) ELSE UndefinedNum

\* x * y on integers; undefined converts to NaN
Mul(x, y) ==
    IF x.kind = "undefined" \/ y.kind = "undefined" THEN NaN
    ELSE IF x.kind = "nan" \/ y.kind = "nan" THEN NaN
    ELSE Fin(x.num * y.num, 1)

\* x + y on integers
Add(x, y) ==
    IF x.kind = "nan" \/ y.kind = "nan" THEN NaN
    ELSE Fin(x.num + y.num, 1)

\* Math.sqrt on the perfect squares the model's vectors produce
Sqrt(x) ==
    IF x.kind = "nan" THEN NaN
    ELSE Fin(CHOOSE r \in 0..x.num : r * r = x.num, 1)

\* x / y for integer x and integer y >= 0
Div(x, y) ==
    IF x.kind = "nan" \/ y.kind = "nan" THEN NaN
    ELSE IF y.num = 0
         THEN IF x.num = 0 THEN NaN ELSE Inf(Sign(x.num))
         ELSE Fin(x.num, y.num)

\* x - y on the values Div returns
Minus(x, y) ==
    IF x.kind = "nan" \/ y.kind = "nan" THEN NaN
    ELSE IF x.kind = "inf" /\ y.kind = "inf"
         THEN IF x.num = y.num THEN NaN ELSE Inf(x.num)
    ELSE IF x.kind = "inf" THEN Inf(x.num)
    ELSE IF y.kind = "inf" THEN Inf(0 - y.num)
    ELSE Fin(x.num * y.den - y.num * x.den, x.den * y.den)

(***************************************************************************)
(* cosineSimilarity (lines 78-83).                                         *)
(***************************************************************************)
RECURSIVE ReduceDot(_, _, _, _)
ReduceDot(a, b, i, sum) ==
    IF i > Len(a) THEN sum
    ELSE ReduceDot(a, b, i + 1, Add(sum, Mul(Fin(a[i], 1), Index(b, i))))

RECURSIVE ReduceSquares(_, _, _)
ReduceSquares(a, i, sum) ==
    IF i > Len(a) THEN sum
    ELSE ReduceSquares(a, i + 1, Add(sum, Mul(Fin(a[i], 1), Fin(a[i], 1))))

cosineSimilarity(a, b) ==
    LET dotProduct == ReduceDot(a, b, 1, Fin(0, 1))
        magnitudeA == Sqrt(ReduceSquares(a, 1, Fin(0, 1)))
        magnitudeB == Sqrt(ReduceSquares(b, 1, Fin(0, 1)))
    IN  Div(dotProduct, Mul(magnitudeA, magnitudeB))

(***************************************************************************)
(* Array.prototype.sort with the comparator of line 68.  ECMAScript turns  *)
(* a NaN returned by the comparator into +0; when the comparator is then   *)
(* not a consistent ordering the resulting order is implementation-        *)
(* defined, so the model carries the algorithm of the engine: V8's TimSort *)
(* (arrays shorter than 64 elements: one run, then binary insertion) or a  *)
(* linear insertion sort.  Both are stable on consistent comparators.      *)
(***************************************************************************)
Engines == {"timsort", "insertion"}

comparefn(a, b) == Minus(b.similarity, a.similarity)

SortCompare(x, y) ==
    LET v == comparefn(x, y)
    IN  IF v.kind = "nan" THEN 0
        ELSE IF v.kind = "inf" THEN v.num
        ELSE Sign(v.num)

RECURSIVE Reversed(_)
Reversed(q) == IF q = <<>> THEN <<>> ELSE Append(Reversed(Tail(q)), Head(q))

ReverseRange(work, from, to) ==
    SubSeq(work, 1, from - 1) \o Reversed(SubSeq(work, from, to))
        \o SubSeq(work, to + 1, Len(work))

RECURSIVE RunLength(_, _, _)
RunLength(work, idx, isDescending) ==
    IF idx > Len(work) THEN idx - 1
    ELSE LET order == SortCompare(work[idx], work[idx - 1])
         IN  IF (isDescending /\ order >= 0) \/ (~isDescending /\ order < 0)
             THEN idx - 1
             ELSE RunLength(work, idx + 1, isDescending)

CountAndMakeRun(work) ==
    LET isDescending == SortCompare(work[2], work[1]) < 0
        runLength == RunLength(work, 3, isDescending)
    IN  [work |-> IF isDescending THEN ReverseRange(work, 1, runLength) ELSE work,
         runLength |-> runLength]

RECURSIVE BinarySearch(_, _, _, _)
BinarySearch(work, pivot, left, right) ==
    IF left >= right THEN left
    ELSE LET mid == left + ((right - left) \div 2)
         IN  IF SortCompare(pivot, work[mid]) < 0
             THEN BinarySearch(work, pivot, left, mid)
             ELSE BinarySearch(work, pivot, mid + 1, right)

\* work with work[start] moved down to position left
InsertAt(work, start, left) ==
    SubSeq(work, 1, left - 1) \o <<work[start]>> \o SubSeq(work, left, start - 1)
        \o SubSeq(work, start + 1, Len(work))

RECURSIVE BinaryInsertionSort(_, _)
BinaryInsertionSort(work, start) ==
    IF start > Len(work) THEN work
    ELSE BinaryInsertionSort(
            InsertAt(work, start, BinarySearch(work, work[start], 1, start)),
            start + 1)

TimSort(array) ==
    IF Len(array) < 2 THEN array
    ELSE LET run == CountAndMakeRun(array)
         IN  BinaryInsertionSort(run.work, run.runLength + 1)

RECURSIVE InsertionPoint(_, _, _)
InsertionPoint(work, item, j) ==
    IF j < 1 THEN 1
    ELSE IF SortCompare(work[j], item) <= 0 THEN j + 1
    ELSE InsertionPoint(work, item, j - 1)

RECURSIVE InsertionSort(_, _)
InsertionSort(work, i) ==
    IF i > Len(work) THEN work
    ELSE InsertionSort(InsertAt(work, i, InsertionPoint(work, work[i], i - 1)), i + 1)

ArraySort(array) ==
    IF engine = "timsort" THEN TimSort(array) ELSE InsertionSort(array, 2)

(***************************************************************************)
(* Array.prototype.slice(0, end).                                          *)
(***************************************************************************)
Min(a, b) == IF a < b THEN a ELSE b
Max(a, b) == IF a > b THEN a ELSE b

Slice(array, end) ==
    LET len == Len(array)
        final == IF end < 0 THEN Max(len + end, 0) ELSE Min(end, len)
    IN  SubSeq(array, 1, final)

(***************************************************************************)
(* The ranking part of similaritySearch (lines 63-70), on the store held   *)
(* in vs, ds.                                                              *)
(***************************************************************************)
RECURSIVE SimilaritiesFrom(_, _, _, _)
SimilaritiesFrom(queryEmbedding, vs, ds, index) ==
    IF index > Len(vs) THEN <<>>
    ELSE <<[similarity |-> cosineSimilarity(queryEmbedding, vs[index]),
            document |-> IF index \in DOMAIN ds THEN ds[index] ELSE Undefined]>>
         \o SimilaritiesFrom(queryEmbedding, vs, ds, index + 1)

Similarities(queryEmbedding, vs, ds) == SimilaritiesFrom(queryEmbedding, vs, ds, 1)

RECURSIVE DocumentsOf(_)
DocumentsOf(items) ==
    IF items = <<>> THEN <<>>
    ELSE <<Head(items).document>> \o DocumentsOf(Tail(items))

Ranked(queryEmbedding, vs, ds, k) ==
    DocumentsOf(Slice(ArraySort(Similarities(queryEmbedding, vs, ds)), k))

(***************************************************************************)
(* Corpus records, documents and texts.  A text is the sequence of the     *)
(* pieces it is concatenated from; a typed line is a sequence of           *)
(* characters.                                                             *)
(***************************************************************************)
Record(i) ==
    [id |-> i,
     title |-> IF i % 3 = 1 THEN "A" ELSE "B",
     content |-> IF i % 2 = 1 THEN "cats" ELSE "rockets"]

Records == {Record(i) : i \in 1..MaxDocs}

RECURSIVE formatDocuments(_)
formatDocuments(raw) ==
    IF raw = <<>> THEN <<>>
    ELSE <<[pageContent |-> <<"Title: ", Head(raw).title, "\nContent: ", Head(raw).content>>,
            metadata |-> [id |-> Head(raw).id, title |-> Head(raw).title]]>>
         \o formatDocuments(Tail(raw))

\* the first m documents of the corpus Record(1), Record(2), ...
RECURSIVE RecordsUpTo(_)
RecordsUpTo(m) == IF m = 0 THEN <<>> ELSE Append(RecordsUpTo(m - 1), Record(m))

DocumentsUpTo(m) == formatDocuments(RecordsUpTo(m))

(***************************************************************************)
(* The embedder.  getEmbeddings (lines 44-47) awaits the extractor and     *)
(* copies its output; the extractor is external.  "miniLM" stands for the  *)
(* pipeline of line 40 (deterministic, unit length, fixed dimension);      *)
(* "stub" stands for an arbitrary function a caller attaches with          *)
(* setExtractor, whose outputs need be neither normalised nor of one       *)
(* dimension.                                                              *)
(***************************************************************************)
Unset == "undefined"
Extractors == {"stub"}

MiniLM(text) ==
    LET last == text[Len(text)]
    IN  CASE last \in {"cats", "s"} -> <<1, 0>>
          [] last = "rockets" -> <<0, 1>>
          [] OTHER -> <<0, -1>>

Stub(text) ==
    CASE text = <<"zero">> -> <<0, 0>>
      [] text = <<"mixed">> -> <<3, 4>>
      [] text = <<"short">> -> <<1>>
      [] OTHER -> <<1, 0>>

\* the stub throws on the text "bad"
Throws(e, text) == e = "stub" /\ text = <<"bad">>

getEmbeddings(e, text) == IF e = "miniLM" THEN MiniLM(text) ELSE Stub(text)

QueryTexts == {<<"zero">>, <<"unit">>, <<"mixed">>, <<"short">>, <<"bad">>}
Vec == {Stub(t) : t \in QueryTexts}

RECURSIVE SeqsUpTo(_, _)
SeqsUpTo(S, n) ==
    IF n = 0 THEN {<<>>}
    ELSE LET shorter == SeqsUpTo(S, n - 1)
         IN  shorter \cup {Append(q, x) : q \in {r \in shorter : Len(r) = n - 1}, x \in S}

KArgs ==
    {[given |-> TRUE, value |-> k] : k \in (0 - 2)..(MaxDocs + 1)}
        \cup {[given |-> FALSE, value |-> 0]}

VectorLists == SeqsUpTo(Vec, MaxDocs)
DocumentLists == {DocumentsUpTo(m) : m \in 0..MaxDocs}

KOf(kArg) == IF kArg.given THEN kArg.value ELSE DefaultK

(***************************************************************************)
(* CustomVectorStore (lines 49-76).                                        *)
(***************************************************************************)
NoCall ==
    [op |-> "none", text |-> <<>>, k |-> 0, a |-> <<>>, b |-> <<>>,
     status |-> "none", docs |-> <<>>, num |-> NaN]

\* similaritySearch: the promise it returns
similaritySearch(text, k, embedOk) ==
    IF extractor = Unset \/ ~embedOk
    THEN [status |-> "rejected", docs |-> <<>>]
    ELSE [status |-> "fulfilled",
          docs |-> Ranked(getEmbeddings(extractor, text), vectors, documents, k)]

AddVectors(vs, ds) ==
    /\ vectors' = vs
    /\ documents' = ds
    /\ call' = [NoCall EXCEPT !.op = "addVectors", !.status = "fulfilled"]
    /\ UNCHANGED <<engine, extractor, runVars>>

SetExtractor(e) ==
    /\ extractor' = e
    /\ call' = [NoCall EXCEPT !.op = "setExtractor", !.status = "fulfilled"]
    /\ UNCHANGED <<engine, vectors, documents, runVars>>

\* a plausible slip: the store's own arrays sorted in place
RECURSIVE VectorsOf(_)
VectorsOf(items) ==
    IF items = <<>> THEN <<>> ELSE <<Head(items).vector>> \o VectorsOf(Tail(items))

RECURSIVE Paired(_, _, _)
Paired(queryEmbedding, vs, ds) ==
    IF vs = <<>> \/ ds = <<>> THEN <<>>
    ELSE <<[similarity |-> cosineSimilarity(queryEmbedding, Head(vs)),
            vector |-> Head(vs), document |-> Head(ds)]>>
         \o Paired(queryEmbedding, Tail(vs), Tail(ds))

SimilaritySearchInPlace(text, kArg, embedOk) ==
    \E r \in {similaritySearch(text, KOf(kArg), embedOk)} :
        /\ call' = [NoCall EXCEPT !.op = "similaritySearch", !.text = text,
                                  !.k = KOf(kArg), !.status = r.status, !.docs = r.docs]
        /\ IF r.status = "fulfilled"
           THEN \E sorted \in {ArraySort(Paired(getEmbeddings(extractor, text),
                                                vectors, documents))} :
                    /\ vectors' = VectorsOf(sorted)
                    /\ documents' = DocumentsOf(sorted)
           ELSE UNCHANGED <<vectors, documents>>
        /\ UNCHANGED <<engine, extractor, runVars>>

SimilaritySearch(text, kArg, embedOk) ==
    \E r \in {similaritySearch(text, KOf(kArg), embedOk)} :
        /\ call' = [NoCall EXCEPT !.op = "similaritySearch", !.text = text,
                                  !.k = KOf(kArg), !.status = r.status, !.docs = r.docs]
        /\ UNCHANGED <<engine, vectors, documents, extractor, runVars>>

CosineSimilarity(a, b) ==
    /\ call' = [NoCall EXCEPT !.op = "cosineSimilarity", !.a = a, !.b = b,
                              !.status = "returned", !.num = cosineSimilarity(a, b)]
    /\ UNCHANGED <<engine, vectors, documents, extractor, runVars>>

Init ==
    /\ engine \in Engines
    /\ vectors = <<>>
    /\ documents = <<>>
    /\ extractor = Unset
    /\ call = NoCall
    /\ pc = "start"
    /\ file = [kind |-> "unread", value |-> [type |-> "null", items |-> <<>>]]
    /\ rawData = [type |-> "array", items |-> <<>>]
    /\ docs = <<>>
    /\ promises = <<>>
    /\ settled = <<>>
    /\ embeddings = <<>>
    /\ stdin = <<>>
    /\ query = <<>>
    /\ relevantDocs = <<>>
    /\ console = <<>>

(***************************************************************************)
(* The client of SpecStore follows the life cycle the program itself uses  *)
(* (construct, setExtractor, addVectors, then searches; lines 91-93 and    *)
(* 98-100) but passes arbitrary arguments: any vector list, a document     *)
(* list up to one longer or shorter, any k, and it may load again before   *)
(* it searches; once it searches it keeps its k and varies the query.      *)
(* cosineSimilarity is a module-level pure function; it is exercised on    *)
(* its own, before the store is touched.                                   *)
(***************************************************************************)
Loads ==
    {<<vs, ds>> \in VectorLists \X DocumentLists :
        Len(ds) - Len(vs) \in {-1, 0, 1}}

NextStore ==
    \/ /\ call.op \in {"none", "cosineSimilarity"}
       /\ \E a \in Vec, b \in Vec : CosineSimilarity(a, b)
    \/ /\ call.op = "none"
       /\ \E e \in Extractors : SetExtractor(e)
    \/ /\ call.op \in {"setExtractor", "addVectors"}
       /\ \E l \in Loads : AddVectors(l[1], l[2])
    \/ /\ call.op \in {"none", "setExtractor", "addVectors"}
       /\ \E text \in QueryTexts, kArg \in KArgs :
            SimilaritySearch(text, kArg, ~Throws(extractor, text))
    \/ /\ call.op = "similaritySearch"
       /\ \E text \in QueryTexts :
            SimilaritySearch(text, [given |-> TRUE, value |-> call.k],
                             ~Throws(extractor, text))

SpecStore == Init /\ [][NextStore]_vars

(***************************************************************************)
(* The program: runRAG (lines 157-171), loadData (7-15),                   *)
(* createVectorStore (85-96) and startChat (123-156).  An action runs from *)
(* one await to the next.                                                  *)
(***************************************************************************)
JsonArray(items) == [type |-> "array", items |-> items]
JsonNull == [type |-> "null", items |-> <<>>]

\* record lists with unique ids
Corpora ==
    {raw \in SeqsUpTo(Records, MaxDocs) :
        \A i \in DOMAIN raw, j \in DOMAIN raw : raw[i].id = raw[j].id => i = j}

\* what ./data.json may be: missing, not JSON, an array of records, or null
Files ==
    {[kind |-> "absent", value |-> JsonNull], [kind |-> "malformed", value |-> JsonNull]}
        \cup {[kind |-> "json", value |-> JsonArray(raw)] : raw \in Corpora}
        \cup {[kind |-> "json", value |-> JsonNull]}

\* loadData: readFile or JSON.parse throwing is caught and [] returned
loadData(f) ==
    IF f.kind \in {"absent", "malformed"} THEN JsonArray(<<>>) ELSE f.value

\* a plausible slip for the test of line 159: !rawData, which an empty array passes
TestsTruthiness(raw) == IF raw.type = "null" THEN "empty" ELSE "records"

\* the test !rawData.length of line 159: reading .length of null throws
NoData(raw) ==
    IF raw.type = "null" THEN "throws"
    ELSE IF Len(raw.items) = 0 THEN "empty"
    ELSE "records"

Say(kind) == [kind |-> kind, titles |-> <<>>]

\* typed lines
Exit == <<"e", "x", "i", "t">>
Lines == {Exit, <<"E", "x", "I", "T">>, <<"e", "x", "i", "t", " ">>, <<"c", "a", "t", "s">>}
Inputs == SeqsUpTo(Lines, MaxLines)

Lower(c) ==
    CASE c = "E" -> "e" [] c = "X" -> "x" [] c = "I" -> "i" [] c = "T" -> "t"
      [] OTHER -> c

RECURSIVE toLowerCase(_)
toLowerCase(line) ==
    IF line = <<>> THEN <<>> ELSE <<Lower(Head(line))>> \o toLowerCase(Tail(line))

\* the titles printed under "sources": first occurrence of each title
RECURSIVE Sources(_, _)
Sources(found, seen) ==
    IF found = <<>> THEN <<>>
    ELSE LET title == Head(found).metadata.title
         IN  IF title \in seen THEN Sources(Tail(found), seen)
             ELSE <<title>> \o Sources(Tail(found), seen \cup {title})

Pending == [state |-> "pending", value |-> <<>>]
Fulfilled(v) == [state |-> "fulfilled", value |-> v]
Rejected == [state |-> "rejected", value |-> <<>>]

RECURSIVE AllPending(_)
AllPending(n) == IF n = 0 THEN <<>> ELSE Append(AllPending(n - 1), Pending)

RECURSIVE ValuesOf(_)
ValuesOf(ps) == IF ps = <<>> THEN <<>> ELSE <<Head(ps).value>> \o ValuesOf(Tail(ps))

\* a plausible slip: the values collected as the calls complete
RECURSIVE ValuesInOrder(_, _)
ValuesInOrder(ps, order) ==
    IF order = <<>> THEN <<>>
    ELSE <<ps[Head(order)].value>> \o ValuesInOrder(ps, Tail(order))

PromiseAllInCompletionOrder(ps, order) ==
    IF \E i \in DOMAIN ps : ps[i].state = "rejected"
    THEN [state |-> "rejected", value |-> <<>>]
    ELSE IF \A i \in DOMAIN ps : ps[i].state = "fulfilled"
    THEN [state |-> "fulfilled", value |-> ValuesInOrder(ps, order)]
    ELSE [state |-> "pending", value |-> <<>>]

\* a plausible slip: Promise.allSettled with the failures filtered out
RECURSIVE FulfilledValuesOf(_)
FulfilledValuesOf(ps) ==
    IF ps = <<>> THEN <<>>
    ELSE (IF Head(ps).state = "fulfilled" THEN <<Head(ps).value>> ELSE <<>>)
         \o FulfilledValuesOf(Tail(ps))

PromiseAllSkippingRejected(ps, order) ==
    IF \A i \in DOMAIN ps : ps[i].state # "pending"
    THEN [state |-> "fulfilled", value |-> FulfilledValuesOf(ps)]
    ELSE [state |-> "pending", value |-> <<>>]

\* Promise.all over ps (order is the order of settling, which it ignores):
\* rejected as soon as one input is rejected, fulfilled
\* with the values in input order once every input is fulfilled
PromiseAll(ps, order) ==
    IF \E i \in DOMAIN ps : ps[i].state = "rejected"
    THEN [state |-> "rejected", value |-> <<>>]
    ELSE IF \A i \in DOMAIN ps : ps[i].state = "fulfilled"
    THEN [state |-> "fulfilled", value |-> ValuesOf(ps)]
    ELSE [state |-> "pending", value |-> <<>>]

\* runRAG up to its second await: loadData, the emptiness test,
\* formatDocuments, initializeOpenRouter, the call of initializeEmbeddings
LoadData(f) ==
    /\ pc = "start"
    /\ file' = f
    /\ \E raw \in {loadData(f)}, caught \in {IF f.kind = "json" THEN <<>> ELSE <<Say("load error")>>} :
        /\ rawData' = raw
        /\ IF NoData(raw) = "throws"
           THEN /\ pc' = "crashed"
                /\ console' = caught
                /\ UNCHANGED docs
           ELSE IF NoData(raw) = "empty"
           THEN /\ pc' = "returned"
                /\ console' = caught \o <<Say("no data")>>
                /\ UNCHANGED docs
           ELSE /\ pc' = "loading model"
                /\ docs' = formatDocuments(raw.items)
                /\ console' = caught \o <<Say("loading model")>>
    /\ UNCHANGED <<engine, storeVars, call, promises, settled, embeddings, stdin,
                   query, relevantDocs>>

\* initializeEmbeddings settles; on success createVectorStore starts one
\* getEmbeddings call per document and awaits Promise.all
InitializeEmbeddings(ok) ==
    /\ pc = "loading model"
    /\ IF ok
       THEN /\ pc' = "embedding"
            /\ promises' = AllPending(Len(docs))
            /\ console' = Append(console, Say("creating store"))
       ELSE /\ pc' = "crashed"
            /\ UNCHANGED <<promises, console>>
    /\ UNCHANGED <<engine, storeVars, call, file, rawData, docs, settled, embeddings, stdin,
                   query, relevantDocs>>

\* one of the concurrent getEmbeddings calls settles
EmbedSettles(i, ok) ==
    /\ pc = "embedding"
    /\ i \in DOMAIN promises
    /\ promises[i].state = "pending"
    /\ promises' = [promises EXCEPT
            ![i] = IF ok THEN Fulfilled(getEmbeddings("miniLM", docs[i].pageContent))
                   ELSE Rejected]
    /\ settled' = Append(settled, i)
    /\ UNCHANGED <<engine, storeVars, call, pc, file, rawData, docs, embeddings, stdin, query,
                   relevantDocs, console>>

\* Promise.all settles and createVectorStore resumes: on rejection the error
\* leaves createVectorStore, runRAG and the top-level await; on fulfilment the
\* store is constructed, given the extractor and loaded
CreateVectorStore ==
    /\ pc = "embedding"
    /\ \E all \in {PromiseAll(promises, settled)} :
        /\ all.state # "pending"
        /\ IF all.state = "rejected"
           THEN /\ pc' = "crashed"
                /\ UNCHANGED <<storeVars, embeddings>>
           ELSE /\ embeddings' = all.value
                /\ extractor' = "miniLM"
                /\ vectors' = all.value
                /\ documents' = docs
                /\ pc' = "store ready"
    /\ UNCHANGED <<engine, call, file, rawData, docs, promises, settled, stdin, query,
                   relevantDocs, console>>

\* runRAG resumes with the store and calls startChat, which opens the
\* readline interface and asks its first question; createVectorStore's
\* locals are gone
StartChat(input) ==
    /\ pc = "store ready"
    /\ console' = Append(console, Say("ready"))
    /\ stdin' = input
    /\ promises' = <<>>
    /\ settled' = <<>>
    /\ embeddings' = <<>>
    /\ pc' = "question"
    /\ UNCHANGED <<engine, storeVars, call, file, rawData, docs, query, relevantDocs>>

\* rl.question returns the next typed line
Question ==
    /\ pc = "question"
    /\ stdin # <<>>
    /\ query' = Head(stdin)
    /\ stdin' = Tail(stdin)
    /\ pc' = IF toLowerCase(Head(stdin)) = Exit THEN "done" ELSE "embedding query"
    /\ relevantDocs' = <<>>
    /\ UNCHANGED <<engine, storeVars, call, file, rawData, docs, promises, settled, embeddings,
                   console>>

\* a plausible slip: the search outside the try block, so its failure is not caught
QueryEmbeddedUncaught(embedOk) ==
    /\ pc = "embedding query"
    /\ \E r \in {similaritySearch(query, SearchK, embedOk)} :
        IF r.status = "fulfilled"
        THEN /\ relevantDocs' = r.docs
             /\ pc' = "completing"
        ELSE /\ pc' = "crashed"
             /\ UNCHANGED relevantDocs
    /\ UNCHANGED <<engine, storeVars, call, file, rawData, docs, promises, settled, embeddings,
                   stdin, query, console>>

\* the getEmbeddings call of similaritySearch settles
QueryEmbedded(embedOk) ==
    /\ pc = "embedding query"
    /\ \E r \in {similaritySearch(query, SearchK, embedOk)} :
        IF r.status = "fulfilled"
        THEN /\ relevantDocs' = r.docs
             /\ pc' = "completing"
             /\ UNCHANGED console
        ELSE /\ console' = console \o <<Say("error"), Say("separator")>>
             /\ pc' = "question"
             /\ UNCHANGED relevantDocs
    /\ UNCHANGED <<engine, storeVars, call, file, rawData, docs, promises, settled, embeddings,
                   stdin, query>>

\* the completion request of getAnswer settles
Completed(ok) ==
    /\ pc = "completing"
    /\ console' = console \o
            (IF ok THEN <<[kind |-> "answer", titles |-> Sources(relevantDocs, {})]>>
                   ELSE <<Say("error")>>)
            \o <<Say("separator")>>
    /\ pc' = "question"
    /\ UNCHANGED <<engine, storeVars, call, file, rawData, docs, promises, settled, embeddings,
                   stdin, query, relevantDocs>>

NextRun ==
    \/ \E f \in Files : LoadData(f)
    \/ \E ok \in BOOLEAN : InitializeEmbeddings(ok)
    \/ \E i \in 1..MaxDocs, ok \in BOOLEAN : EmbedSettles(i, ok)
    \/ CreateVectorStore
    \/ \E input \in Inputs : StartChat(input)
    \/ Question
    \/ \E embedOk \in BOOLEAN : QueryEmbedded(embedOk)
    \/ \E ok \in BOOLEAN : Completed(ok)

SpecRun == Init /\ [][NextRun]_vars

(***************************************************************************)
(* Properties.                                                             *)
(***************************************************************************)
SearchReturned == call.op = "similaritySearch" /\ call.status = "fulfilled"

\* the similarity the last search gave the store's index-th vector
SimilarityAt(index) ==
    cosineSimilarity(getEmbeddings(extractor, call.text), vectors[index])

\* the store index of a returned document (documents of SpecStore differ in id)
IndexOf(document) == CHOOSE index \in DOMAIN documents : documents[index] = document

\* x >= y as numbers; false when either is NaN
Geq(x, y) ==
    LET d == Minus(x, y)
    IN  /\ x.kind # "nan"
        /\ y.kind # "nan"
        /\ d.kind # "nan"
        /\ d.num >= 0

SameNumber(x, y) == Geq(x, y) /\ Geq(y, x)

RankedInOrder ==
    \A i \in DOMAIN call.docs, j \in DOMAIN call.docs :
        i < j =>
            LET first == IndexOf(call.docs[i])
                second == IndexOf(call.docs[j])
            IN  /\ Geq(SimilarityAt(first), SimilarityAt(second))
                /\ SameNumber(SimilarityAt(first), SimilarityAt(second)) => first < second

\* every stored vector has the length of the query vector
SameDimension ==
    \A index \in DOMAIN vectors :
        Len(vectors[index]) = Len(getEmbeddings(extractor, call.text))

Comparable ==
    \A index \in DOMAIN vectors : SimilarityAt(index).kind # "nan"

\* C1: a search that returns gives min(k, corpus size) documents when k > 0 and
\* the store is not empty, and no document when the store is empty or k <= 0.
C1_SearchLength ==
    (SearchReturned /\ Len(vectors) = Len(documents)) =>
        Len(call.docs) = IF Len(vectors) = 0 \/ call.k <= 0 THEN 0
                         ELSE Min(call.k, Len(vectors))

\* C2: the documents a search returns are in non-increasing order of their
\* cosine similarity to the query, equal similarities in store order (stated
\* for stores whose vectors all have the query vector's length).
C2_SearchOrdered ==
    (SearchReturned /\ Len(vectors) = Len(documents) /\ SameDimension) => RankedInOrder

\* The ranking is ordered and stable whenever every similarity is a number:
\* the order fails only through the NaN of C9 and C8.
SortedWhenComparable ==
    (SearchReturned /\ Len(vectors) = Len(documents) /\ Comparable) => RankedInOrder

\* C3: a load with sequences of different lengths is refused and changes
\* nothing, so the store never holds vectors and documents of different lengths.
C3_LoadKeepsPairing == Len(vectors) = Len(documents)

\* C8: cosineSimilarity does not return for vectors of unequal length, whichever
\* of the two is the longer.
C8_DimensionMismatchFails ==
    (call.op = "cosineSimilarity" /\ Len(call.a) # Len(call.b)) =>
        call.status # "returned"

ZeroMagnitude(v) == \A i \in DOMAIN v : v[i] = 0

\* C9: with an argument of zero magnitude cosineSimilarity gives the number 0,
\* not NaN.
C9_ZeroMagnitudeIsZero ==
    (/\ call.op = "cosineSimilarity"
     /\ Len(call.a) = Len(call.b)
     /\ ZeroMagnitude(call.a) \/ ZeroMagnitude(call.b)) =>
        (call.num.kind = "fin" /\ call.num.num = 0)

\* C10: a search step leaves vectors and documents as they were, and a search
\* repeated with the same query and k right after a search that returned gives
\* the same documents in the same order.
C10_SearchReadOnly ==
    [][call'.op = "similaritySearch" =>
            /\ vectors' = vectors
            /\ documents' = documents
            /\ (/\ SearchReturned
                /\ call'.status = "fulfilled"
                /\ call'.text = call.text
                /\ call'.k = call.k) => call'.docs = call.docs]_vars

\* a search has ranked at least two documents into an order other than the
\* store's, and the store still holds them in the order loaded
C10_Witness ==
    /\ SearchReturned
    /\ Len(vectors) = Len(documents)
    /\ Len(call.docs) >= 2
    /\ call.docs[1] = documents[Len(documents)]

ChatPcs == {"question", "embedding query", "completing"}
StorePcs == {"store ready", "done"} \cup ChatPcs

\* C4: once createVectorStore has succeeded, vectors[i] is the embedding of
\* documents[i].pageContent for every i and documents is the input sequence,
\* whatever the order in which the embed calls completed.
C4_VectorsPairedInOrder ==
    pc \in StorePcs =>
        /\ documents = formatDocuments(rawData.items)
        /\ Len(vectors) = Len(documents)
        /\ \A i \in DOMAIN documents :
                vectors[i] = getEmbeddings("miniLM", documents[i].pageContent)

\* the store was built although the second embed call completed first and the
\* two embeddings differ
C4_Witness ==
    /\ pc = "store ready"
    /\ Len(settled) >= 2
    /\ settled[1] = 2
    /\ vectors[1] # vectors[2]

AnyRejected == \E i \in DOMAIN promises : promises[i].state = "rejected"

\* C5: when a per-document embed call has failed, no store is produced or
\* populated and the session loop is not entered.
C5_FailFast ==
    AnyRejected =>
        /\ pc \in {"embedding", "crashed"}
        /\ vectors = <<>>
        /\ documents = <<>>
        /\ extractor = Unset
        /\ stdin = <<>>
        /\ query = <<>>
        /\ \A i \in DOMAIN console : console[i] # Say("ready")

\* the build has failed with one embed call rejected and another fulfilled
C5_Witness ==
    /\ pc = "crashed"
    /\ AnyRejected
    /\ \E i \in DOMAIN promises : promises[i].state = "fulfilled"

\* C6: in the session loop a failure of the query embedding or of the
\* completion is reported and followed by the next question with no typed line
\* lost; the next line is then read and processed; the loop is left only on a
\* line that equals "exit" without regard to case.
C6_LoopSurvivesFailures ==
    [][/\ pc = "embedding query" =>
            /\ stdin' = stdin
            /\ \/ pc' = "completing"
               \/ /\ pc' = "question"
                  /\ console' = console \o <<Say("error"), Say("separator")>>
       /\ pc = "completing" =>
            /\ stdin' = stdin
            /\ pc' = "question"
            /\ Len(console') = Len(console) + 2
            /\ console'[Len(console) + 1].kind \in {"answer", "error"}
       /\ pc = "question" =>
            /\ query' = Head(stdin)
            /\ stdin' = Tail(stdin)
            /\ pc' = IF toLowerCase(query') = Exit THEN "done" ELSE "embedding query"
       /\ (pc \in ChatPcs /\ pc' \notin ChatPcs) =>
            /\ pc = "question"
            /\ pc' = "done"
            /\ toLowerCase(query') = Exit]_vars

\* a query is being processed after an earlier one failed
C6_Witness ==
    /\ pc = "completing"
    /\ \E i \in DOMAIN console : console[i] = Say("error")

NoCorpus ==
    \/ file.kind \in {"absent", "malformed"}
    \/ file.kind = "json" /\ file.value.type = "array" /\ file.value.items = <<>>

\* C7: with the corpus file absent, unparsable or holding zero records, runRAG
\* reports "no data" and returns: no store, no embed call, no session loop.
C7_NoDataTerminates ==
    NoCorpus =>
        /\ pc = "returned"
        /\ console # <<>>
        /\ console[Len(console)] = Say("no data")
        /\ vectors = <<>>
        /\ documents = <<>>
        /\ extractor = Unset
        /\ docs = <<>>
        /\ promises = <<>>
        /\ stdin = <<>>
        /\ query = <<>>

\* runRAG has returned on a file that could not be parsed
C7_Witness == pc = "returned" /\ file.kind = "malformed"

====
